---- MODULE Spec2Model ----
(***************************************************************************)
(* Flight Delay API (src/main.py): the fetch-normalize-upsert pipeline     *)
(* fetch_delays_task, its two scheduler jobs, the manual trigger           *)
(* GET /fetch_delays, and the readers GET /summary and GET /delays, over   *)
(* the one table `delays` keyed by (flight_iata, dep_time, flight_type).   *)
(*                                                                         *)
(* Values.  A JSON / Python value is a tagged tuple: <<"str", s>>,         *)
(* <<"num", n>>, <<"null">> (JSON null, Python None, SQL NULL), and        *)
(* <<"absent">> for a key the dict does not hold.  IATA codes are kept as  *)
(* sequences of characters so that the pattern ^[A-Z]{3}$ is computed.     *)
(* A datetime is the number of minutes since 2024-01-01 00:00.             *)
(*                                                                         *)
(* Store.  cursor.executemany runs the INSERT .. ON CONFLICT statement     *)
(* once per parameter tuple; the module opens no transaction (no BEGIN),   *)
(* so each execution is its own atomic statement and the readers, which    *)
(* share the same cursor, see the table between two of them.               *)
(***************************************************************************)
EXTENDS Integers, Sequences, FiniteSets, Bags, TLC

VARIABLES
    delays,     \* the table `delays`: a bag (multiset) of rows
    task,       \* per caller: the activation of fetch_delays_task
    resp,       \* the HTTP response most recently produced
    upstream,   \* history: the request and payload of the latest run
    rep,        \* history: whether the current run repeats the latest one
    base,       \* history: the table when the run, or the scheduler round, began
    pending     \* scheduler jobs fired and not yet started

vars == <<delays, task, resp, upstream, rep, base, pending>>

----------------------------------------------------------------------------
(* Bounds *)

\* longest upstream `response` array
MaxItems == 2
\* most rows of a table drawn for the summary specification
MaxRows == 3

----------------------------------------------------------------------------
(* Python / JSON values *)

ABSENT == <<"absent">>
JNULL == <<"null">>
JS(s) == <<"str", s>>
JN(n) == <<"num", n>>
\* a JSON object {"message": m}
JObj(m) == <<"obj", m>>

\* dict.get(key, default)
Get(item, key, default) == IF item[key] = ABSENT THEN default ELSE item[key]

\* Python truth value of `not v` (None, '', 0 and [] are false)
Falsy(v) ==
    \/ v = ABSENT
    \/ v = JNULL
    \/ v = JS("")
    \/ v = JN(0)
    \/ v = <<"list", <<>> >>

FMT_HM == "%Y-%m-%d %H:%M"
FMT_HMS == "%Y-%m-%d %H:%M:%S"

\* the strings of the model that a format accepts, with the datetime each gives
\* (strptime accepts unpadded fields; it rejects trailing or missing seconds)
ParseTable ==
    { <<FMT_HM, "2024-01-01 10:00", 600>>,
      <<FMT_HM, "2024-1-1 10:00", 600>>,
      <<FMT_HM, "2024-01-01 11:30", 690>>,
      <<FMT_HM, "2024-01-01 13:00", 780>>,
      <<FMT_HM, "2024-01-01 13:30", 810>>,
      <<FMT_HMS, "2024-01-01 10:00:00", 600>>,
      <<FMT_HMS, "2024-01-01 11:30:00", 690>>,
      <<FMT_HMS, "2024-01-01 13:00:00", 780>>,
      <<FMT_HMS, "2024-01-01 13:30:00", 810>> }

\* datetime.strptime(v, fmt): TypeError unless v is a str, ValueError unless
\* the string matches the format
strptime(v, fmt) ==
    IF v[1] # "str" THEN [exc |-> "TypeError", dt |-> 0]
    ELSE IF \E e \in ParseTable : e[1] = fmt /\ e[2] = v[2]
         THEN [exc |-> "none",
               dt |-> (CHOOSE e \in ParseTable : e[1] = fmt /\ e[2] = v[2])[3]]
         ELSE [exc |-> "ValueError", dt |-> 0]

\* the decimal strings of the model
IntLiterals == { <<"45", 45>>, <<"20", 20>> }

\* int(v) for a value that is not an int: a str parses or raises ValueError,
\* None raises TypeError
int(v) ==
    IF v[1] = "str"
    THEN IF \E e \in IntLiterals : e[1] = v[2]
         THEN [exc |-> "none", n |-> (CHOOSE e \in IntLiterals : e[1] = v[2])[2]]
         ELSE [exc |-> "ValueError", n |-> 0]
    ELSE [exc |-> "TypeError", n |-> 0]

\* lines 124-129: the delay of an item
Delayed(item) ==
    LET delayed == Get(item, "delayed", JN(0))
    IN  IF delayed[1] = "num" THEN delayed[2]
        ELSE IF int(delayed).exc = "none" THEN int(delayed).n ELSE 0

UpperLetters == {"A", "B", "C", "D", "E", "F", "G", "H", "I", "J", "K", "L", "M",
                 "N", "O", "P", "Q", "R", "S", "T", "U", "V", "W", "X", "Y", "Z"}

\* the pattern ^[A-Z]{3}$ with min_length = max_length = 3
IataPattern(v) ==
    /\ v[1] = "str"
    /\ Len(v[2]) = 3
    /\ \A k \in 1..3 : v[2][k] \in UpperLetters

JFK == <<"J", "F", "K">>
LAX == <<"L", "A", "X">>

----------------------------------------------------------------------------
(* The upstream provider: the payloads the model draws from *)

\* an item of the provider's `response` array, every key present
ItemA ==
    [airline_iata |-> JS("AA"), flight_iata |-> JS("AA1"),
     dep_iata |-> JS(JFK), dep_icao |-> JS("KJFK"),
     arr_iata |-> JS(LAX), arr_icao |-> JS("KLAX"),
     delayed |-> JN(40),
     dep_time_utc |-> JS("2024-01-01 10:00"),
     arr_time_utc |-> JS("2024-01-01 13:00")]

\* the same flight and departure observed again: another airline code, the
\* delay as a decimal string, the departure written unpadded, a later arrival
ItemB ==
    [ItemA EXCEPT !.airline_iata = JS("BA"), !.delayed = JS("45"),
                  !.dep_time_utc = JS("2024-1-1 10:00"),
                  !.arr_time_utc = JS("2024-01-01 13:30")]

\* another flight, the other way, delayed less than the scheduler's threshold
ItemC ==
    [ItemA EXCEPT !.airline_iata = JS("BA"), !.flight_iata = JS("BA2"),
                  !.dep_iata = JS(LAX), !.dep_icao = JS("KLAX"),
                  !.arr_iata = JS(JFK), !.arr_icao = JS("KJFK"),
                  !.delayed = JN(20),
                  !.dep_time_utc = JS("2024-01-01 11:30"),
                  !.arr_time_utc = JS("2024-01-01 13:30")]

\* a departure timestamp that is a string in another format
ItemBadFormat ==
    [ItemC EXCEPT !.delayed = JN(50), !.dep_time_utc = JS("2024-01-01T11:30:00Z")]

\* no arrival timestamp
ItemNoArrival ==
    [ItemC EXCEPT !.delayed = JN(50), !.arr_time_utc = ABSENT]

\* a departure timestamp that is a JSON number (epoch seconds)
ItemEpoch ==
    [ItemC EXCEPT !.delayed = JN(50), !.dep_time_utc = JN(1704108600)]

\* a flight without an IATA flight code: "flight_iata": null
ItemNoCode ==
    [ItemC EXCEPT !.delayed = JN(60), !.flight_iata = JNULL]

\* flight BA2 again, without departure airport and without a usable delay
ItemSparse ==
    [ItemC EXCEPT !.dep_iata = ABSENT, !.dep_icao = ABSENT, !.delayed = JS("n/a")]

Items ==
    {ItemA, ItemB, ItemC, ItemBadFormat, ItemNoArrival, ItemEpoch, ItemNoCode,
     ItemSparse}

RECURSIVE SeqsUpTo(_, _)
\* the sequences over S of length at most n
SeqsUpTo(S, n) ==
    IF n = 0 THEN {<<>>}
    ELSE LET shorter == SeqsUpTo(S, n - 1)
         IN  shorter \cup {Append(q, x) : q \in shorter, x \in S}

\* what requests.get(url, params) and response.json() give: a transport
\* failure, a body that is not JSON, or a JSON object
Payloads ==
    {[kind |-> k, error |-> ABSENT, response |-> ABSENT] :
        k \in {"ConnectionError", "JSONDecodeError"}}
    \cup {[kind |-> "json", error |-> ABSENT, response |-> r] :
            r \in {ABSENT} \cup {<<"list", q>> : q \in SeqsUpTo(Items, MaxItems)}}
    \cup {[kind |-> "json", error |-> e, response |-> r] :
            e \in {JObj("rate limited"), JS("invalid key")},
            r \in {ABSENT, <<"list", <<ItemA>> >>}}

----------------------------------------------------------------------------
(* The pipeline's computation, lines 91-152 *)

FlightTypes == {"arrivals", "departures"}

\* lines 137-148: the parameter tuple of one item
Record(item, flight_type, delayed, dep_time_dt, arr_time_dt) ==
    [airline_iata |-> Get(item, "airline_iata", JS("")),
     flight_iata |-> Get(item, "flight_iata", JS("")),
     dep_iata |-> Get(item, "dep_iata", JS(<<>>)),
     dep_icao |-> Get(item, "dep_icao", JS("")),
     arr_iata |-> Get(item, "arr_iata", JS(<<>>)),
     arr_icao |-> Get(item, "arr_icao", JS("")),
     delayed |-> delayed,
     flight_type |-> flight_type,
     dep_time |-> dep_time_dt,
     arr_time |-> arr_time_dt]

\* a filter that lets every non-negative delay through
AnyDelay(delayed, min_delayed_time) == delayed >= 0

\* line 132 as written
MeetsThreshold(delayed, min_delayed_time) == delayed >= min_delayed_time

\* lines 116-121: which exception classes the inner handler catches
InnerExcept(exc) == exc = "ValueError"

RECURSIVE ProcessItems(_, _, _, _)
\* lines 105-148: the loop over the response array from position k, with the
\* records appended so far; exc names the exception that leaves the loop
ProcessItems(response, k, flight_type, min_delayed_time) ==
    IF k > Len(response) THEN [exc |-> "none", records |-> <<>>]
    ELSE
    LET item == response[k]
        rest == ProcessItems(response, k + 1, flight_type, min_delayed_time)
        dep_time_utc == Get(item, "dep_time_utc", JNULL)
        arr_time_utc == Get(item, "arr_time_utc", JNULL)
        dep == strptime(dep_time_utc, FMT_HM)
        arr == strptime(arr_time_utc, FMT_HM)
        raised == IF dep.exc # "none" THEN dep.exc ELSE arr.exc
        delayed == Delayed(item)
    IN  IF Falsy(dep_time_utc) \/ Falsy(arr_time_utc) THEN rest
        ELSE IF raised # "none"
             THEN IF InnerExcept(raised) THEN rest
                  ELSE [exc |-> raised, records |-> <<>>]
        ELSE IF MeetsThreshold(delayed, min_delayed_time)
             THEN [exc |-> rest.exc,
                   records |-> IF rest.exc = "none"
                               THEN <<Record(item, flight_type, delayed, dep.dt, arr.dt)>>
                                    \o rest.records
                               ELSE <<>>]
        ELSE rest

\* a run that never looks at the error field
IgnoresError(payload) == FALSE

\* line 94: data.get('error')
HasError(payload) == ~Falsy(Get(payload, "error", JNULL))

\* lines 91-152: the run up to the batch statement.  how is "batch" when there
\* are records to write, or the reason the run ends before it
Prepare(payload, flight_type, min_delayed_time) ==
    LET none == [how |-> "none", exc |-> "none", records |-> <<>>]
    IN  IF payload.kind # "json"
        THEN [none EXCEPT !.how = "raised", !.exc = payload.kind]
        ELSE IF HasError(payload)
        THEN \* line 95 reads data['error']['message']
             IF payload.error[1] = "obj"
             THEN [none EXCEPT !.how = "provider_error"]
             ELSE [none EXCEPT !.how = "raised", !.exc = "TypeError"]
        ELSE IF Falsy(Get(payload, "response", <<"list", <<>> >>))
        THEN [none EXCEPT !.how = "no_data"]
        ELSE
        LET loop == ProcessItems(payload.response[2], 1, flight_type, min_delayed_time)
        IN  IF loop.exc # "none"
            THEN [none EXCEPT !.how = "raised", !.exc = loop.exc]
            ELSE IF loop.records = <<>>
            THEN [none EXCEPT !.how = "no_records"]
            ELSE [none EXCEPT !.how = "batch", !.records = loop.records]


----------------------------------------------------------------------------
(* The table, lines 50-64, and the batch statement, lines 155-169 *)

\* a key without the direction
FlightAndTime(row) == <<row.flight_iata, row.dep_time>>

\* PRIMARY KEY (flight_iata, dep_time, flight_type), also the conflict target
PrimaryKey(row) == <<row.flight_iata, row.dep_time, row.flight_type>>

\* ON CONFLICT .. DO UPDATE SET, lines 161-168: the stored row after the update
DoUpdateSet(old, excluded) ==
    [old EXCEPT !.airline_iata = excluded.airline_iata,
                !.dep_iata = excluded.dep_iata,
                !.dep_icao = excluded.dep_icao,
                !.arr_iata = excluded.arr_iata,
                !.arr_icao = excluded.arr_icao,
                !.delayed = excluded.delayed,
                !.arr_time = excluded.arr_time]

RECURSIVE Copies(_, _)
\* how many rows of the bag are in the set S of its rows
Copies(table, S) ==
    IF S = {} THEN 0
    ELSE LET r == CHOOSE x \in S : TRUE
         IN  table[r] + Copies(table, S \ {r})

\* the bag of the images of the rows under the function f
BagMap(table, f) ==
    [x \in {f[r] : r \in DOMAIN table} |->
        Copies(table, {r \in DOMAIN table : f[r] = x})]

\* the rows of the table with the key of row
Conflicting(table, row) ==
    {old \in DOMAIN table : PrimaryKey(old) = PrimaryKey(row)}

\* a plain INSERT, without the ON CONFLICT clause and without the key
PlainInsert(table, row) ==
    IF row.flight_iata = JNULL
    THEN [exc |-> "ConstraintException", table |-> table]
    ELSE [exc |-> "none", table |-> table (+) SetToBag({row})]

\* one execution of the INSERT statement with one parameter tuple: a primary
\* key column is NOT NULL, a row with the same key is updated, else inserted
InsertOnConflict(table, row) ==
    IF row.flight_iata = JNULL
    THEN [exc |-> "ConstraintException", table |-> table]
    ELSE IF Conflicting(table, row) # {}
    THEN LET Updated == [old \in DOMAIN table |->
                             IF old \in Conflicting(table, row)
                             THEN DoUpdateSet(old, row) ELSE old]
         IN  [exc |-> "none", table |-> BagMap(table, Updated)]
    ELSE [exc |-> "none", table |-> table (+) SetToBag({row})]

RECURSIVE ExecuteMany(_, _, _)
\* cursor.executemany run to its end from tuple k: the table it leaves (the
\* statement that raises ends it; the tuples before it stay applied)
ExecuteMany(table, records, k) ==
    IF k > Len(records) THEN table
    ELSE LET r == InsertOnConflict(table, records[k])
         IN  IF r.exc # "none" THEN table ELSE ExecuteMany(r.table, records, k + 1)

----------------------------------------------------------------------------
(* fetch_delays_task, lines 66-175, and its callers *)

\* the two scheduler jobs, lines 181-203, and the endpoint, lines 212-236
Jobs == {"job_departures", "job_arrivals"}
Callers == Jobs \cup {"fetch_delays"}

\* lines 187 and 199
ScheduledMinDelay == 30

\* the kwargs of a job
JobFlightType(c) == IF c = "job_departures" THEN "departures" ELSE "arrivals"

\* min_delayed_time values a caller of the endpoint passes (Query(..., ge=0))
ManualThresholds == {0, 45}

\* the arguments a caller can pass
Arguments(c) ==
    IF c \in Jobs
    THEN {[flight_type |-> JobFlightType(c), min_delayed_time |-> ScheduledMinDelay]}
    ELSE {[flight_type |-> f, min_delayed_time |-> t] :
            f \in FlightTypes, t \in ManualThresholds}

\* a handler for ValueError alone
ExceptValueError(exc) == exc = "ValueError"

\* the classes `except Exception`, line 174, catches
OuterExcept(exc) ==
    exc \in {"ConnectionError", "JSONDecodeError", "TypeError", "ValueError",
             "ConstraintException"}

\* the exception that leaves fetch_delays_task, "none" when it returns
Escapes(exc) == IF exc # "none" /\ ~OuterExcept(exc) THEN exc ELSE "none"

IdleTask ==
    [pc |-> "idle", flight_type |-> "", min_delayed_time |-> 0,
     records |-> <<>>, n |-> 0, how |-> "none", exc |-> "none", escaped |-> "none"]

NoResp == [op |-> "none", status |-> 0, body |-> <<>>, req |-> <<>>]
NoUpstream == [flight_type |-> "", min_delayed_time |-> 0, payload |-> <<>>]
NoRep == [same |-> FALSE, rows |-> 0]

\* lines 75-152: the activation after the upstream request and the loop
Called(args, payload) ==
    LET p == Prepare(payload, args.flight_type, args.min_delayed_time)
    IN  [pc |-> IF p.how = "batch" THEN "executemany" ELSE "return",
         flight_type |-> args.flight_type,
         min_delayed_time |-> args.min_delayed_time,
         records |-> p.records,
         n |-> 0,
         how |-> IF p.how = "batch" THEN "none" ELSE p.how,
         exc |-> p.exc,
         escaped |-> Escapes(p.exc)]

\* lines 75-152: the call, the upstream request and the loop, up to the batch
Request(c, args, payload) ==
    /\ task[c].pc = "idle"
    /\ task' = [task EXCEPT ![c] = Called(args, payload)]
    /\ UNCHANGED delays

\* lines 155-172: one execution of the statement inside cursor.executemany;
\* after the last one conn.commit() finds no open transaction and the run ends
Execute(c) ==
    /\ task[c].pc = "executemany"
    /\ LET t == task[c]
           r == InsertOnConflict(delays, t.records[t.n + 1])
       IN  IF r.exc # "none"
           THEN /\ delays' = delays
                /\ task' = [task EXCEPT ![c].pc = "return", ![c].how = "raised",
                                        ![c].exc = r.exc,
                                        ![c].escaped = Escapes(r.exc)]
           ELSE /\ delays' = r.table
                /\ task' = [task EXCEPT
                        ![c].n = t.n + 1,
                        ![c].pc = IF t.n + 1 = Len(t.records)
                                  THEN "return" ELSE "executemany",
                        ![c].how = IF t.n + 1 = Len(t.records)
                                   THEN "written" ELSE "none"]

\* lines 226-236: what the endpoint answers when the pipeline call ends
FetchDelaysResponse(escaped) ==
    IF escaped = "none"
    THEN [op |-> "fetch_delays", status |-> 200, body |-> <<"success">>, req |-> <<>>]
    ELSE [op |-> "fetch_delays", status |-> 500, body |-> <<escaped>>, req |-> <<>>]

\* the call returns to the scheduler or to the endpoint
Return(c) ==
    /\ task[c].pc = "return"
    /\ task' = [task EXCEPT ![c] = IdleTask]
    /\ resp' = IF c = "fetch_delays" THEN FetchDelaysResponse(task[c].escaped)
               ELSE NoResp
    /\ UNCHANGED delays

Quiet == \A c \in Callers : task[c].pc = "idle"


----------------------------------------------------------------------------
(* GET /summary, lines 240-334, and GET /delays, lines 336-368 *)

RECURSIVE SumDelayed(_, _)
\* SUM(delayed) over the rows of the bag that are in the set S
SumDelayed(table, S) ==
    IF S = {} THEN 0
    ELSE LET r == CHOOSE x \in S : TRUE
         IN  table[r] * r.delayed + SumDelayed(table, S \ {r})

RECURSIVE Gcd(_, _)
Gcd(a, b) == IF b = 0 THEN a ELSE Gcd(b, a % b)

\* the quotient a / b as a fraction in lowest terms (b > 0, a >= 0)
Fraction(a, b) ==
    LET g == IF a = 0 THEN b ELSE Gcd(a, b)
    IN  <<a \div g, b \div g>>

\* a window open at both ends
StrictlyBetween(x, lo, hi) == lo < x /\ x < hi

\* x BETWEEN lo AND hi
SqlBetween(x, lo, hi) == lo <= x /\ x <= hi

\* one condition of a WHERE clause on one row; a NULL column equals nothing
Holds(row, cond) ==
    CASE cond.op = "= ?" -> row[cond.column] = JS(cond.args[1])
      [] cond.op = "BETWEEN ? AND ?" ->
            SqlBetween(row[cond.column], cond.args[1], cond.args[2])
      [] cond.op = ">= ?" -> row[cond.column] >= cond.args[1]
      [] cond.op = "<= ?" -> row[cond.column] <= cond.args[1]

\* SELECT .., AVG(delayed), COUNT(*) FROM delays WHERE conditions joined by AND
SelectAvgCount(table, label, conditions) ==
    LET rows == {r \in DOMAIN table :
                    \A k \in 1..Len(conditions) : Holds(r, conditions[k])}
        count == Copies(table, rows)
    IN  [arrival_departure |-> label,
         average_delay |-> IF count = 0 THEN JNULL
                           ELSE Fraction(SumDelayed(table, rows), count),
         total_flights |-> count]

\* lines 254-261: a bound of the window; an empty or missing parameter is None
ParseBound(v) ==
    IF Falsy(v) THEN [exc |-> "none", given |-> FALSE, dt |-> 0]
    ELSE LET p == strptime(v, FMT_HMS)
         IN  [exc |-> p.exc, given |-> p.exc = "none", dt |-> p.dt]

\* lines 264-274 (departures) and 286-296 (arrivals): the conditions
WhereConditions(iata_column, time_column, airport_code, date_from, date_to) ==
    <<[column |-> iata_column, op |-> "= ?", args |-> <<airport_code>>]>>
    \o (IF date_from.given /\ date_to.given
        THEN <<[column |-> time_column, op |-> "BETWEEN ? AND ?",
                args |-> <<date_from.dt, date_to.dt>>]>>
        ELSE IF date_from.given
        THEN <<[column |-> time_column, op |-> ">= ?", args |-> <<date_from.dt>>]>>
        ELSE IF date_to.given
        THEN <<[column |-> time_column, op |-> "<= ?", args |-> <<date_to.dt>>]>>
        ELSE <<>>)

\* lines 308-321: an entry of the summary for a result with rows
Entry(airport_code, result) ==
    IF result.total_flights > 0
    THEN <<[airport_code |-> airport_code,
            arrival_departure |-> result.arrival_departure,
            average_delay |-> result.average_delay,
            total_flights |-> result.total_flights]>>
    ELSE <<>>

\* get_summary: the status and body of the answer
get_summary(table, airport_code, date_time_from, date_time_to) ==
    LET date_from == ParseBound(date_time_from)
        date_to == ParseBound(date_time_to)
        dep_result == SelectAvgCount(table, "departures",
            WhereConditions("dep_iata", "dep_time", airport_code, date_from, date_to))
        arr_result == SelectAvgCount(table, "arrivals",
            WhereConditions("arr_iata", "arr_time", airport_code, date_from, date_to))
        summary == Entry(airport_code, dep_result) \o Entry(airport_code, arr_result)
    IN  IF date_from.exc # "none" \/ (date_from.exc = "none" /\ date_to.exc # "none")
        THEN [status |-> 400, body |-> <<>>]
        ELSE IF summary = <<>> THEN [status |-> 404, body |-> <<>>]
        ELSE [status |-> 200, body |-> summary]

\* airport codes the framework lets through (pattern ^[A-Z]{3}$)
AirportCodes == {code \in {JFK, LAX, <<"j", "f", "k">>} : IataPattern(JS(code))}

\* the date_time_from and date_time_to values of the model
FromValues ==
    {ABSENT, JS(""), JS("not-a-date"), JS("2024-01-01 10:00:00"),
     JS("2024-01-01 11:30:00")}
ToValues == {ABSENT, JS("2024-01-01 10:00:00"), JS("2024-01-01 13:00:00")}

GetSummary(airport_code, date_time_from, date_time_to) ==
    /\ LET r == get_summary(delays, airport_code, date_time_from, date_time_to)
       IN  resp' = [op |-> "summary", status |-> r.status, body |-> r.body,
                    req |-> <<airport_code, date_time_from, date_time_to>>]
    /\ UNCHANGED <<delays, task>>

\* datetime.isoformat()
isoformat(dt) == <<"iso", dt>>

\* lines 349-363: a row as the dictionary returned
Listed(row) ==
    [row EXCEPT !.dep_time = isoformat(row.dep_time),
                !.arr_time = isoformat(row.arr_time)]

\* get_all_delays: every row, its timestamps serialised
GetAllDelays ==
    /\ resp' = [op |-> "delays", status |-> 200,
                body |-> BagMap(delays, [r \in DOMAIN delays |-> Listed(r)]), req |-> <<>>]
    /\ UNCHANGED <<delays, task>>

----------------------------------------------------------------------------
(* The pipeline, one run at a time, with the list-all reader at any moment *)

Init ==
    /\ delays = EmptyBag
    /\ task = [c \in Callers |-> IdleTask]
    /\ resp = NoResp
    /\ upstream = NoUpstream
    /\ rep = NoRep
    /\ base = EmptyBag
    /\ pending = {}

\* what a run records of its request and of the provider's answer
Observed(args, payload) ==
    [flight_type |-> args.flight_type,
     min_delayed_time |-> args.min_delayed_time,
     payload |-> payload]

\* a caller starts a run while no other run is active
Start(c) ==
    /\ Quiet
    /\ resp = NoResp
    /\ \E args \in Arguments(c), payload \in Payloads :
        /\ Request(c, args, payload)
        /\ resp' = NoResp
        /\ upstream' = Observed(args, payload)
        /\ rep' = NoRep
        /\ base' = delays
        /\ UNCHANGED pending

Step(c) ==
    /\ resp = NoResp
    /\ Execute(c)
    /\ resp' = NoResp
    /\ UNCHANGED <<upstream, rep, base, pending>>

\* the run returns; the endpoint's answer is kept until it is sent
Finish(c) ==
    /\ resp = NoResp
    /\ Return(c)
    /\ upstream' = IF c \in Jobs THEN NoUpstream ELSE upstream
    /\ rep' = NoRep
    /\ base' = EmptyBag
    /\ UNCHANGED pending

\* the run returns and its caller calls again at once with the same
\* arguments, the provider answering with the same payload
Again(c) ==
    /\ resp = NoResp
    /\ task[c].pc = "return"
    /\ task' = [task EXCEPT ![c] =
            Called([flight_type |-> upstream.flight_type,
                    min_delayed_time |-> upstream.min_delayed_time],
                   upstream.payload)]
    /\ rep' = [same |-> TRUE, rows |-> BagCardinality(delays)]
    /\ base' = delays
    /\ UNCHANGED <<delays, resp, upstream, pending>>

ListAll ==
    /\ resp = NoResp
    /\ GetAllDelays
    /\ UNCHANGED <<upstream, rep, base, pending>>

\* the framework sends the answer of a handler
Send ==
    /\ resp # NoResp
    /\ resp' = NoResp
    /\ upstream' = IF Quiet THEN NoUpstream ELSE upstream
    /\ UNCHANGED <<delays, task, rep, base, pending>>

Next ==
    \/ \E c \in Callers : Start(c)
    \/ \E c \in Callers : Step(c)
    \/ \E c \in Callers : Finish(c)
    \/ \E c \in Callers : Again(c)
    \/ ListAll
    \/ Send

Spec == Init /\ [][Next]_vars


----------------------------------------------------------------------------
(* The scheduler, lines 178-205: both jobs fire on the same interval and   *)
(* run on the scheduler's thread pool, their statements interleaving       *)

\* the interval elapses: both jobs are submitted
Tick ==
    /\ pending = {}
    /\ \A c \in Jobs : task[c].pc \in {"idle", "return"}
    /\ pending' = Jobs
    /\ base' = delays
    /\ task' = [c \in Callers |-> IdleTask]
    /\ UNCHANGED <<delays, resp, upstream, rep>>

JobStart(c) ==
    /\ c \in pending
    /\ \E args \in Arguments(c), payload \in Payloads :
        /\ Request(c, args, payload)
        /\ pending' = pending \ {c}
        /\ UNCHANGED <<resp, upstream, rep, base>>

JobStep(c) ==
    /\ Execute(c)
    /\ UNCHANGED <<resp, upstream, rep, base, pending>>

NextSched ==
    \/ Tick
    \/ \E c \in Jobs : JobStart(c)
    \/ \E c \in Jobs : JobStep(c)

SpecSched == Init /\ [][NextSched]_vars

----------------------------------------------------------------------------
(* The readers over a table left by earlier runs (the database file        *)
(* persists across restarts)                                               *)

\* items of earlier responses: three flights out of JFK with three delays,
\* and the items of the model
EarlierItems ==
    {[ItemA EXCEPT !.flight_iata = JS(f), !.delayed = JN(d)] :
        f \in {"AA1", "CC3", "DD4"}, d \in {10, 40, 70}}
    \cup {ItemB, ItemC, ItemSparse}

\* the rows the pipeline writes for them
EarlierRows ==
    {Record(item, f, Delayed(item),
            strptime(item.dep_time_utc, FMT_HM).dt,
            strptime(item.arr_time_utc, FMT_HM).dt) :
        item \in EarlierItems, f \in FlightTypes}

RECURSIVE RowSetsUpTo(_)
\* the sets of at most n of these rows
RowSetsUpTo(n) ==
    IF n = 0 THEN {{}}
    ELSE LET smaller == RowSetsUpTo(n - 1)
         IN  smaller \cup {t \cup {r} : t \in smaller, r \in EarlierRows}

\* the primary key constraint of the table
UniqueKeys(rows) ==
    \A r1, r2 \in rows : PrimaryKey(r1) = PrimaryKey(r2) => r1 = r2

InitSummary ==
    /\ delays \in {SetToBag(t) : t \in {u \in RowSetsUpTo(MaxRows) : UniqueKeys(u)}}
    /\ task = [c \in Callers |-> IdleTask]
    /\ resp = NoResp
    /\ upstream = NoUpstream
    /\ rep = NoRep
    /\ base = EmptyBag
    /\ pending = {}

Summary ==
    /\ resp = NoResp
    /\ \E a \in AirportCodes, f \in FromValues, t \in ToValues :
        /\ GetSummary(a, f, t)
        /\ UNCHANGED <<upstream, rep, base, pending>>

NextSummary ==
    \/ Summary
    \/ ListAll
    \/ Send

SpecSummary == InitSummary /\ [][NextSummary]_vars


----------------------------------------------------------------------------
(* The vocabulary of the claims *)

\* the run of caller c has ended and has not yet returned
Ended(c) == task[c].pc = "return"

\* the response array of the latest payload, empty when there is none
ResponseItems ==
    IF upstream.payload # <<>> /\ upstream.payload.kind = "json"
       /\ upstream.payload.response # ABSENT
    THEN upstream.payload.response[2] ELSE <<>>

\* the latest payload is a JSON object without a provider error
NoProviderError ==
    /\ upstream.payload # <<>>
    /\ upstream.payload.kind = "json"
    /\ upstream.payload.error \in {ABSENT, JNULL}

\* a timestamp is a string in the format YYYY-MM-DD HH:MM
Parseable(v) == v[1] = "str" /\ \E e \in ParseTable : e[1] = FMT_HM /\ e[2] = v[2]

\* a timestamp is missing
Missing(v) == v \in {ABSENT, JNULL, JS("")}

BothParseable(item) == Parseable(item.dep_time_utc) /\ Parseable(item.arr_time_utc)

\* the delay of an item: a number, a decimal string, and 0 for anything else
DelayValue(item) ==
    LET d == item.delayed
    IN  IF d[1] = "num" THEN d[2]
        ELSE IF d[1] = "str" /\ \E e \in IntLiterals : e[1] = d[2]
        THEN (CHOOSE e \in IntLiterals : e[1] = d[2])[2]
        ELSE 0

\* the datetime a parseable timestamp denotes
TimeOf(v) == (CHOOSE e \in ParseTable : e[1] = FMT_HM /\ e[2] = v[2])[3]

\* an item the run is to keep: both timestamps parseable, delay >= threshold
Retained(item) ==
    BothParseable(item) /\ DelayValue(item) >= upstream.min_delayed_time

\* the key of a retained item in the run's direction
KeyOf(item) ==
    <<IF item.flight_iata = ABSENT THEN JS("") ELSE item.flight_iata,
      TimeOf(item.dep_time_utc), upstream.flight_type>>

\* a field of an item as stored, the empty string when the item lacks it
Stored(item, field, empty) ==
    IF item[field] = ABSENT THEN JS(empty) ELSE item[field]

\* a row holds the non-key fields of an item
SameObservation(row, item) ==
    /\ row.airline_iata = Stored(item, "airline_iata", "")
    /\ row.dep_iata = Stored(item, "dep_iata", <<>>)
    /\ row.dep_icao = Stored(item, "dep_icao", "")
    /\ row.arr_iata = Stored(item, "arr_iata", <<>>)
    /\ row.arr_icao = Stored(item, "arr_icao", "")
    /\ row.delayed = DelayValue(item)
    /\ row.arr_time = TimeOf(item.arr_time_utc)

\* the rows of the table with a key, counted with their copies
RowsWithKey(key) == Copies(delays, {r \in DOMAIN delays : PrimaryKey(r) = key})

\* position k holds the last retained item of the response with its key
LastOfKey(k) ==
    \A j \in (k + 1)..Len(ResponseItems) :
        Retained(ResponseItems[j]) => KeyOf(ResponseItems[j]) # KeyOf(ResponseItems[k])

\* every timestamp of the response is a string or is missing
OnlyStringTimestamps ==
    \A k \in 1..Len(ResponseItems) :
        \A v \in {ResponseItems[k].dep_time_utc, ResponseItems[k].arr_time_utc} :
            v[1] = "str" \/ Missing(v)

----------------------------------------------------------------------------
(* C1 *)

\* C1: after a run whose payload carries no error, every retained item
\* (both timestamps parseable, delay >= threshold) has exactly one row with
\* its key (flight code, departure time, direction of the run), and that row
\* holds the non-key fields of the last retained item with that key.
\* Stated for responses whose timestamps are all strings or missing.
C1_RetainedItemsStored ==
    \A c \in Callers :
        (Ended(c) /\ NoProviderError /\ OnlyStringTimestamps) =>
            \A k \in 1..Len(ResponseItems) :
                Retained(ResponseItems[k]) =>
                    /\ RowsWithKey(KeyOf(ResponseItems[k])) = 1
                    /\ LastOfKey(k) =>
                          \A r \in DOMAIN delays :
                              PrimaryKey(r) = KeyOf(ResponseItems[k]) =>
                                  SameObservation(r, ResponseItems[k])


----------------------------------------------------------------------------
(* C2 *)

\* C2: a run that repeats the run before it (same arguments, same payload),
\* with nothing in between, ends with the row count the table had when it
\* started: the second run adds no rows.
C2_SecondRunAddsNoRows ==
    \A c \in Callers :
        (Ended(c) /\ rep.same) => BagCardinality(delays) = rep.rows

\* a repeated run that wrote a batch holding two items of one key and an
\* item of another, over a table that held rows before the first run
C2_Witness ==
    \E c \in Callers :
        /\ Ended(c) /\ rep.same
        /\ task[c].how = "written"
        /\ Len(task[c].records) = 2
        /\ BagCardinality(delays) >= 2

----------------------------------------------------------------------------
(* C3 *)

\* every statement of the batch can be executed over the table
RECURSIVE Applicable(_, _, _)
Applicable(table, records, k) ==
    \/ k > Len(records)
    \/ /\ InsertOnConflict(table, records[k]).exc = "none"
       /\ Applicable(InsertOnConflict(table, records[k]).table, records, k + 1)

\* C3: the batch of a run is applied atomically: while the run is inside its
\* batch (a reader may run then), and after a run that an exception ended,
\* the table is the one the run found (none of its records) or the one its
\* whole batch gives (all of them).
C3_BatchAllOrNothing ==
    \A c \in Callers :
        (task[c].pc = "executemany" \/ (Ended(c) /\ task[c].how = "raised")) =>
            \/ delays = base
            \/ /\ Applicable(base, task[c].records, 1)
               /\ delays = ExecuteMany(base, task[c].records, 1)

----------------------------------------------------------------------------
(* C4 *)

\* an item whose departure or arrival timestamp is missing or unparseable
BadTimestamp(item) == ~BothParseable(item)

\* C4: a response with items whose timestamps are missing or cannot be
\* parsed does not make the run fail; those items are left out and every
\* other item that meets the threshold is written.  Stated for responses
\* whose other items all carry a flight code.
C4_BadTimestampsSkipped ==
    \A c \in Callers :
        (/\ Ended(c) /\ NoProviderError
         /\ \E k \in 1..Len(ResponseItems) : BadTimestamp(ResponseItems[k])
         /\ \A k \in 1..Len(ResponseItems) :
               BadTimestamp(ResponseItems[k]) \/ ResponseItems[k].flight_iata # JNULL)
        => /\ task[c].exc = "none"
           /\ \A k \in 1..Len(ResponseItems) :
                 Retained(ResponseItems[k]) =>
                     RowsWithKey(KeyOf(ResponseItems[k])) = 1

----------------------------------------------------------------------------
(* C5 *)

\* the rows the table holds and did not hold when the run began
Written == {r \in DOMAIN delays : r \notin DOMAIN base \/ delays[r] > base[r]}

\* C5: every row a run with threshold t has inserted or rewritten has
\* delay >= t and comes from an item of the response whose delay value is
\* >= t, a missing or non-numeric delay counting as 0.
C5_BelowThresholdNeverWritten ==
    \A c \in Callers :
        task[c].pc # "idle" =>
            \A r \in Written :
                /\ r.delayed >= upstream.min_delayed_time
                /\ \E k \in 1..Len(ResponseItems) :
                      /\ DelayValue(ResponseItems[k]) >= upstream.min_delayed_time
                      /\ DelayValue(ResponseItems[k]) = r.delayed
                      /\ Stored(ResponseItems[k], "flight_iata", "") = r.flight_iata

\* a run with threshold 45 over two observations of one flight has left out
\* the one delayed 40 and written the one delayed "45"
C5_Witness ==
    \E c \in Callers :
        /\ Ended(c) /\ task[c].how = "written"
        /\ upstream.min_delayed_time = 45
        /\ ResponseItems = <<ItemA, ItemB>>
        /\ BagCardinality(delays) = 1

\* the same for an item without a usable delay, written under threshold 0
C5_WitnessZero ==
    \E c \in Callers :
        /\ Ended(c) /\ task[c].how = "written"
        /\ upstream.min_delayed_time = 0
        /\ ResponseItems = <<ItemSparse>>
        /\ \E r \in DOMAIN delays : r.delayed = 0

----------------------------------------------------------------------------
(* C6 *)

\* the latest payload carries a non-empty error field
ProviderError ==
    /\ upstream.payload # <<>>
    /\ upstream.payload.kind = "json"
    /\ upstream.payload.error \notin {ABSENT, JNULL}

\* C6: a run whose payload carries a non-empty error field returns early:
\* it executes no statement, the table is the one it found, whatever the
\* response array holds, and no exception leaves it.
C6_ProviderErrorLeavesStore ==
    \A c \in Callers :
        (task[c].pc # "idle" /\ ProviderError) =>
            /\ Ended(c)
            /\ task[c].n = 0
            /\ delays = base
            /\ task[c].escaped = "none"

\* such a run, with a response array beside the error, over a table with rows
C6_Witness ==
    \E c \in Callers :
        /\ Ended(c) /\ ProviderError
        /\ task[c].how = "provider_error"
        /\ ResponseItems # <<>>
        /\ BagCardinality(delays) > 0

----------------------------------------------------------------------------
(* C7 *)

\* C7: no exception leaves fetch_delays_task, and GET /fetch_delays answers
\* 200 whatever the run did.
C7_NeverPropagates ==
    /\ \A c \in Callers : task[c].escaped = "none"
    /\ resp.op = "fetch_delays" => resp.status = 200

\* the endpoint answers 200 after a run that a transport failure ended
C7_Witness ==
    /\ resp.op = "fetch_delays" /\ resp.status = 200
    /\ upstream.payload.kind = "ConnectionError"

----------------------------------------------------------------------------
(* C8 *)

\* C8: every stored row satisfies the DelayRecord constraints: delayed >= 0,
\* dep_iata and arr_iata three uppercase letters, flight_type one of the two.
C8_RowsAreDelayRecords ==
    \A r \in DOMAIN delays :
        /\ r.delayed >= 0
        /\ IataPattern(r.dep_iata)
        /\ IataPattern(r.arr_iata)
        /\ r.flight_type \in FlightTypes


----------------------------------------------------------------------------
(* C9 *)

\* the request of the latest summary
ReqAirport == resp.req[1]
ReqFrom == resp.req[2]
ReqTo == resp.req[3]

\* a bound of the window is given
Given(v) == v \notin {ABSENT, JS("")}

\* a bound is well formed
WellFormed(v) ==
    ~Given(v) \/ \E e \in ParseTable : e[1] = FMT_HMS /\ e[2] = v[2]

\* the datetime of a given, well-formed bound
BoundOf(v) == (CHOOSE e \in ParseTable : e[1] = FMT_HMS /\ e[2] = v[2])[3]

\* the window, inclusive at both ends
InWindow(ts) ==
    /\ Given(ReqFrom) => BoundOf(ReqFrom) <= ts
    /\ Given(ReqTo) => ts <= BoundOf(ReqTo)

\* the rows leaving, and the rows reaching, the airport inside the window
DepartureSet ==
    {r \in DOMAIN delays : r.dep_iata = JS(ReqAirport) /\ InWindow(r.dep_time)}
ArrivalSet ==
    {r \in DOMAIN delays : r.arr_iata = JS(ReqAirport) /\ InWindow(r.arr_time)}

\* the entries of the answer for a direction
EntriesFor(direction) ==
    {k \in 1..Len(resp.body) : resp.body[k].arrival_departure = direction}

\* the answer lists the direction iff the set has rows, once, with the
\* number of rows and their arithmetic mean
Aggregates(direction, S) ==
    /\ Cardinality(EntriesFor(direction)) = IF Copies(delays, S) > 0 THEN 1 ELSE 0
    /\ \A k \in EntriesFor(direction) :
          /\ resp.body[k].airport_code = ReqAirport
          /\ resp.body[k].total_flights = Copies(delays, S)
          /\ resp.body[k].average_delay[1] * Copies(delays, S)
                = resp.body[k].average_delay[2] * SumDelayed(delays, S)
          /\ resp.body[k].average_delay[2] > 0

----------------------------------------------------------------------------
(* C10 *)

\* both jobs of a round have ended
RoundOver == pending = {} /\ \A c \in Jobs : Ended(c)

\* the table after the batch of caller c alone, over table t
After(c, t) == ExecuteMany(t, task[c].records, 1)

\* C10: the two scheduled jobs (departures and arrivals, threshold 30) run
\* concurrently; whatever the interleaving of their statements, the table
\* they leave is the one that running one job after the other leaves, in
\* either order.
C10_JobsCommute ==
    RoundOver =>
        /\ \A c \in Jobs : task[c].min_delayed_time = ScheduledMinDelay
        /\ delays = After("job_arrivals", After("job_departures", base))
        /\ delays = After("job_departures", After("job_arrivals", base))

\* a round in which both jobs wrote a batch of two rows of the same flight
\* and departure time as the other job's
C10_Witness ==
    /\ RoundOver
    /\ \A c \in Jobs : task[c].how = "written" /\ Len(task[c].records) = 2
    /\ \E r1, r2 \in DOMAIN delays :
          /\ r1.flight_type = "departures" /\ r2.flight_type = "arrivals"
          /\ r1.flight_iata = r2.flight_iata /\ r1.dep_time = r2.dep_time
          /\ r1.delayed # r2.delayed


====
